---- MODULE Spec2Model ----
(***************************************************************************)
(* Flight-booking tools and their budget ledger.                           *)
(*                                                                         *)
(*   - src/booking_agent.py: the script tools book_flight and              *)
(*     add_to_calendar and the module global total_spending (the ledger),  *)
(*     bounded by BUDGET_LIMIT;                                            *)
(*   - src/app/tools/booking.py: the service tool book_flight, which takes *)
(*     the price as an argument and draws its outcome at random.           *)
(*                                                                         *)
(* A Python string is a sequence of tokens: " " is a run of whitespace,    *)
(* "-" a dash, any other token a run of other characters.                  *)
(***************************************************************************)
EXTENDS Integers, Sequences, FiniteSets, Bags

VARIABLES
    total_spending,   \* booking_agent.total_spending
    hashseed,         \* the process's string-hash seed (fixed per process)
    last,             \* the most recent tool call and what it returned
    prev,             \* the call before it
    ncalls,           \* calls made so far by the process
    issued,           \* bag of the confirmation identifiers returned by successes
    charged_total,    \* sum of the "Amount Charged" of the successes since the last reset
    pc,               \* per thread: position inside a concurrent book_flight
    frame,            \* per thread: arguments, the value loaded for +=, the result
    reasoning_steps,  \* FlightBookingAgent.reasoning_steps of the one agent instance
    rpc,              \* per request: idle, running (awaiting the executor) or done
    isteps,           \* per request: the executor's intermediate_steps so far
    response,         \* per request: what book_flight_endpoint returned
    extracted         \* what the calls of extract_booking_details on the current trace returned

vars == <<total_spending, hashseed, last, prev, ncalls, issued, charged_total, pc, frame,
          reasoning_steps, rpc, isteps, response, extracted>>

runvars == <<reasoning_steps, rpc, isteps, response>>

-----------------------------------------------------------------------------
(* Bounds of the model *)

MaxCalls == 4
MaxSeed == 1
MaxThreads == 3
MaxLedgerUnits == 12
MaxDraw == 1
MaxRuns == 2
max_iterations == 3
MaxSteps == 3
MaxTrace == 2
MaxExtracts == 2
MaxServiceCalls == 3

(* Program constants *)

BUDGET_LIMIT == 1000
mock_price == 500

-----------------------------------------------------------------------------
(* Strings *)

EMPTY == <<>>
BLANK == <<" ">>

\* `not s or not s.strip()`
IsBlank(s) == \A i \in 1..Len(s) : s[i] = " "

\* len(s.split('-'))
SplitDashCount(s) == 1 + Cardinality({i \in 1..Len(s) : s[i] = "-"})

TokCode(tok) ==
    CASE tok = " " -> 1
      [] tok = "-" -> 2
      [] tok = "FL123" -> 3
      [] tok = "FL456" -> 4
      [] tok = "Alice" -> 5
      [] tok = "2024" -> 6
      [] tok = "12" -> 7
      [] tok = "25" -> 8
      [] tok = "20241225" -> 9
      [] tok = "Flight to London" -> 10
      [] OTHER -> 11

\* hash(s): a function of the string's content and of the process's seed only.
RECURSIVE PyHash(_, _)
PyHash(seed, s) ==
    IF s = <<>> THEN seed + 7
    ELSE (PyHash(seed, SubSeq(s, 1, Len(s) - 1)) * 31 + TokCode(s[Len(s)])) % 100003

-----------------------------------------------------------------------------
(* src/booking_agent.py: book_flight *)

NoConf == <<>>

\* f"CONF-{hash(f'{id}{name}') % 100000:05d}"
confirmation_number(seed, id, name) == <<"CONF", PyHash(seed, id \o name) % 100000>>

\* A plausible slip: the check forgets the price of the flight being booked.
BudgetExceeded_IgnoresPrice(spent, price) == spent > BUDGET_LIMIT

\* A plausible slip: the check forgets what was already spent.
BudgetExceeded_ComparesPrice(spent, price) == price > BUDGET_LIMIT

\* A plausible slip: >= instead of >, so that a booking that exactly fills the
\* budget is blocked.
BudgetExceeded_Inclusive(spent, price) == spent + price >= BUDGET_LIMIT

\* `if total_spending + mock_price > BUDGET_LIMIT`
BudgetExceeded(spent, price) == spent + price > BUDGET_LIMIT

\* A plausible slip: `=` instead of `+=`.
Commit_Overwrite(spent, price) == price

\* A plausible slip: the amount is added twice.
Commit_DoubleCharge(spent, price) == spent + price + price

\* `total_spending += mock_price`
Commit(spent, price) == spent + price

BookResult(outcome, reason, conf, charged, spending) ==
    [outcome |-> outcome, reason |-> reason, confirmation |-> conf,
     charged |-> charged, total_spending |-> spending]

\* A plausible slip: the spending tracker is updated before the budget check.
book_flight_CommitBeforeCheck(spent, seed, id, name) ==
    IF IsBlank(id)
    THEN BookResult("invalid_input", "Flight ID cannot be empty", NoConf, 0, spent)
    ELSE IF IsBlank(name)
    THEN BookResult("invalid_input", "Passenger name cannot be empty", NoConf, 0, spent)
    ELSE IF BudgetExceeded(spent, mock_price)
    THEN BookResult("blocked", "Budget exceeded", NoConf, 0, Commit(spent, mock_price))
    ELSE BookResult("confirmed", "", confirmation_number(seed, id, name),
                    mock_price, Commit(spent, mock_price))

\* book_flight(id, name) called with total_spending = spent: what it returns
\* and the value it leaves in total_spending.
book_flight(spent, seed, id, name) ==
    IF IsBlank(id)
    THEN BookResult("invalid_input", "Flight ID cannot be empty", NoConf, 0, spent)
    ELSE IF IsBlank(name)
    THEN BookResult("invalid_input", "Passenger name cannot be empty", NoConf, 0, spent)
    ELSE IF BudgetExceeded(spent, mock_price)
    THEN BookResult("blocked", "Budget exceeded", NoConf, 0, spent)
    ELSE BookResult("confirmed", "", confirmation_number(seed, id, name),
                    mock_price, Commit(spent, mock_price))

-----------------------------------------------------------------------------
(* src/booking_agent.py: add_to_calendar *)

\* f"EVENT-{hash(f'{date}{details}') % 10000:04d}"
event_id(seed, date, details) == <<"EVENT", PyHash(seed, date \o details) % 10000>>

\* A plausible slip: a calendar failure undoes the charge of the booking.
add_to_calendar_RollsBack(spent, seed, date, details) ==
    IF IsBlank(date)
    THEN BookResult("invalid_input", "Date cannot be empty", NoConf, 0,
                    IF spent >= mock_price THEN spent - mock_price ELSE spent)
    ELSE IF IsBlank(details)
    THEN BookResult("invalid_input", "Details cannot be empty", NoConf, 0,
                    IF spent >= mock_price THEN spent - mock_price ELSE spent)
    ELSE IF SplitDashCount(date) # 3
    THEN BookResult("invalid_input", "Date must be in YYYY-MM-DD format", NoConf, 0,
                    IF spent >= mock_price THEN spent - mock_price ELSE spent)
    ELSE BookResult("created", "", event_id(seed, date, details), 0, spent)

\* add_to_calendar(date, details) called with total_spending = spent.
add_to_calendar(spent, seed, date, details) ==
    IF IsBlank(date)
    THEN BookResult("invalid_input", "Date cannot be empty", NoConf, 0, spent)
    ELSE IF IsBlank(details)
    THEN BookResult("invalid_input", "Details cannot be empty", NoConf, 0, spent)
    ELSE IF SplitDashCount(date) # 3
    THEN BookResult("invalid_input", "Date must be in YYYY-MM-DD format", NoConf, 0, spent)
    ELSE BookResult("created", "", event_id(seed, date, details), 0, spent)

-----------------------------------------------------------------------------
(* src/booking_agent.py: search_flights *)

Min(a, b) == IF a <= b THEN a ELSE b

\* f"FL{hash(dest) % 1000 + offset:03d}"
flight_id(seed, dest, offset) == <<"FL", (PyHash(seed, dest) % 1000) + offset>>

\* The two mock flights, each <<id, price>>; prices are in hundredths of a
\* dollar, so that price * 0.9 and price * 0.95 stay integers.
mock_flights(seed, dest, price) ==
    << <<flight_id(seed, dest, 0), Min(100 * (price - 50), 90 * price)>>,
       <<flight_id(seed, dest, 100), Min(100 * (price - 20), 95 * price)>> >>

\* A plausible slip: a search starts a fresh budget.
search_flights_ResetsLedger(spent, seed, dest, price) ==
    IF IsBlank(dest)
    THEN BookResult("invalid_input", "Destination cannot be empty", NoConf, 0, spent)
    ELSE IF price <= 0
    THEN BookResult("invalid_input", "Price must be greater than 0", NoConf, 0, spent)
    ELSE BookResult("found", "", <<"FLIGHTS">> \o mock_flights(seed, dest, price), 0, 0)

\* search_flights(dest, price) called with total_spending = spent; the flights
\* found are carried where a booking carries its confirmation number.
search_flights(spent, seed, dest, price) ==
    IF IsBlank(dest)
    THEN BookResult("invalid_input", "Destination cannot be empty", NoConf, 0, spent)
    ELSE IF price <= 0
    THEN BookResult("invalid_input", "Price must be greater than 0", NoConf, 0, spent)
    ELSE BookResult("found", "", <<"FLIGHTS">> \o mock_flights(seed, dest, price), 0, spent)

-----------------------------------------------------------------------------
(* Inputs *)

SearchDests == {EMPTY, BLANK, <<"New York">>}
SearchPrices == {-100, 0, 40, 600}

FlightIds == {EMPTY, BLANK, <<"FL123">>, <<"FL456">>}
PassengerNames == {EMPTY, BLANK, <<"Alice">>}
CalendarDates == {EMPTY, BLANK, <<"2024", "-", "12", "-", "25">>,
                  <<"12", "-", "25", "-", "2024">>, <<"20241225">>}
CalendarDetails == {EMPTY, <<"Flight to London">>}

-----------------------------------------------------------------------------
(* The sequential process: one tool call at a time *)

NoCall == [tool |-> "none", args |-> <<>>, outcome |-> "none", reason |-> "",
           confirmation |-> NoConf, charged |-> 0, before |-> 0, after |-> 0]

CallRec(tool, args, r, before) ==
    [tool |-> tool, args |-> args, outcome |-> r.outcome, reason |-> r.reason,
     confirmation |-> r.confirmation, charged |-> r.charged,
     before |-> before, after |-> r.total_spending]

Threads == 1..MaxThreads

\* The requests the service may be processing.
Runs == 1..MaxRuns

None == <<>>

\* No response yet.
NoResponse ==
    [returned |-> FALSE, propagated |-> FALSE, success |-> FALSE, forced |-> FALSE,
     status |-> "pending", booking_id |-> None, calendar_event_id |-> None,
     flight_number |-> None, price |-> None, agent_reasoning |-> <<>>]

IdleThreads == [t \in Threads |-> "idle"]
NoFrames == [t \in Threads |-> [id |-> EMPTY, name |-> EMPTY, loaded |-> 0,
                                outcome |-> "none"]]

Init ==
    /\ total_spending = 0
    /\ hashseed \in 0..MaxSeed
    /\ last = NoCall
    /\ prev = NoCall
    /\ ncalls = 0
    /\ issued = EmptyBag
    /\ charged_total = 0
    /\ pc = IdleThreads
    /\ frame = NoFrames
    /\ reasoning_steps = <<>>
    /\ rpc = [r \in Runs |-> "idle"]
    /\ isteps = [r \in Runs |-> <<>>]
    /\ response = [r \in Runs |-> NoResponse]
    /\ extracted = <<>>

Record(rec) ==
    /\ prev' = last
    /\ last' = rec
    /\ ncalls' = ncalls + 1

BookFlight ==
    /\ ncalls < MaxCalls
    /\ \E id \in FlightIds, name \in PassengerNames :
         LET r == book_flight(total_spending, hashseed, id, name) IN
           /\ total_spending' = r.total_spending
           /\ Record(CallRec("book_flight", <<id, name>>, r, total_spending))
           /\ issued' = IF r.outcome = "confirmed"
                        THEN issued (+) SetToBag({r.confirmation})
                        ELSE issued
           /\ charged_total' = charged_total + r.charged
    /\ UNCHANGED <<extracted, reasoning_steps, rpc, isteps, response, hashseed, pc, frame>>

AddToCalendar ==
    /\ ncalls < MaxCalls
    /\ \E date \in CalendarDates, details \in CalendarDetails :
         LET r == add_to_calendar(total_spending, hashseed, date, details) IN
           /\ total_spending' = r.total_spending
           /\ Record(CallRec("add_to_calendar", <<date, details>>, r, total_spending))
    /\ UNCHANGED <<extracted, reasoning_steps, rpc, isteps, response, hashseed, issued, charged_total, pc, frame>>

SearchFlights ==
    /\ ncalls < MaxCalls
    /\ \E dest \in SearchDests, price \in SearchPrices :
         LET r == search_flights(total_spending, hashseed, dest, price) IN
           /\ total_spending' = r.total_spending
           /\ Record(CallRec("search_flights", <<dest, price>>, r, total_spending))
    /\ UNCHANGED <<extracted, reasoning_steps, rpc, isteps, response, hashseed, issued, charged_total, pc, frame>>

\* `booking_agent.total_spending = 0`, the caller's explicit reset.
ResetSpending ==
    /\ ncalls < MaxCalls
    /\ total_spending' = 0
    /\ charged_total' = 0
    /\ Record([NoCall EXCEPT !.tool = "reset", !.before = total_spending])
    /\ UNCHANGED <<extracted, reasoning_steps, rpc, isteps, response, hashseed, issued, pc, frame>>

Next == BookFlight \/ AddToCalendar \/ SearchFlights \/ ResetSpending

Spec == Init /\ [][Next]_vars

-----------------------------------------------------------------------------
(* The ledger as a caller may have left it: total_spending is a module global *)
(* that callers assign (as the reset does), so a booking may start from any   *)
(* amount.                                                                   *)

LedgerValues == {100 * k : k \in 0..MaxLedgerUnits}

InitLedger ==
    /\ total_spending \in LedgerValues
    /\ hashseed \in 0..MaxSeed
    /\ last = NoCall
    /\ prev = NoCall
    /\ ncalls = 0
    /\ issued = EmptyBag
    /\ charged_total = 0
    /\ pc = IdleThreads
    /\ frame = NoFrames
    /\ reasoning_steps = <<>>
    /\ rpc = [r \in Runs |-> "idle"]
    /\ isteps = [r \in Runs |-> <<>>]
    /\ response = [r \in Runs |-> NoResponse]
    /\ extracted = <<>>

NextLedger == BookFlight \/ AddToCalendar

SpecLedger == InitLedger /\ [][NextLedger]_vars

-----------------------------------------------------------------------------
(* Concurrent book_flight calls of the script tool.  The function takes no   *)
(* lock: another thread may run between the budget check and the update, and *)
(* between the load and the store of `total_spending += mock_price`.         *)

ConcFlightIds == {EMPTY, <<"FL123">>}
ConcNames == {<<"Alice">>}

Return(t, outcome) ==
    /\ pc' = [pc EXCEPT ![t] = "returned"]
    /\ frame' = [frame EXCEPT ![t].outcome = outcome]

\* the call and its input validation
T_Enter(t) ==
    /\ pc[t] = "idle"
    /\ \E id \in ConcFlightIds, name \in ConcNames :
         IF IsBlank(id) \/ IsBlank(name)
         THEN /\ pc' = [pc EXCEPT ![t] = "returned"]
              /\ frame' = [frame EXCEPT ![t] = [id |-> id, name |-> name, loaded |-> 0,
                                                 outcome |-> "invalid_input"]]
         ELSE /\ pc' = [pc EXCEPT ![t] = "check"]
              /\ frame' = [frame EXCEPT ![t] = [id |-> id, name |-> name, loaded |-> 0,
                                                 outcome |-> "none"]]
    /\ UNCHANGED <<extracted, reasoning_steps, rpc, isteps, response, total_spending, hashseed, last, prev, ncalls, issued, charged_total>>

\* `if total_spending + mock_price > BUDGET_LIMIT: return ...`
T_Check(t) ==
    /\ pc[t] = "check"
    /\ IF BudgetExceeded(total_spending, mock_price)
       THEN Return(t, "blocked")
       ELSE /\ pc' = [pc EXCEPT ![t] = "load"]
            /\ frame' = frame
    /\ UNCHANGED <<extracted, reasoning_steps, rpc, isteps, response, total_spending, hashseed, last, prev, ncalls, issued, charged_total>>

\* `total_spending += mock_price`: the read
T_Load(t) ==
    /\ pc[t] = "load"
    /\ pc' = [pc EXCEPT ![t] = "store"]
    /\ frame' = [frame EXCEPT ![t].loaded = total_spending]
    /\ UNCHANGED <<extracted, reasoning_steps, rpc, isteps, response, total_spending, hashseed, last, prev, ncalls, issued, charged_total>>

\* `total_spending += mock_price`: the write, then the return
T_Store(t) ==
    /\ pc[t] = "store"
    /\ total_spending' = Commit(frame[t].loaded, mock_price)
    /\ Return(t, "confirmed")
    /\ UNCHANGED <<extracted, reasoning_steps, rpc, isteps, response, hashseed, last, prev, ncalls, issued, charged_total>>

NextConc == \E t \in Threads : T_Enter(t) \/ T_Check(t) \/ T_Load(t) \/ T_Store(t)

SpecConc == Init /\ [][NextConc]_vars

-----------------------------------------------------------------------------
(* src/app/tools/booking.py: book_flight *)

\* calendar.monthrange, as datetime.strptime applies it
IsLeap(y) == (y % 4 = 0 /\ y % 100 # 0) \/ y % 400 = 0

DaysInMonth(m, y) ==
    IF m = 2 THEN (IF IsLeap(y) THEN 29 ELSE 28)
    ELSE IF m \in {4, 6, 9, 11} THEN 30 ELSE 31

\* datetime.strptime(date, '%d-%m-%Y') does not raise; a date is <<DD, MM, YYYY>>,
\* and a text that is not three numbers between dashes is a tuple of another length
ValidDate(date) ==
    /\ Len(date) = 3
    /\ date[3] \in 1..9999
    /\ date[2] \in 1..12
    /\ date[1] \in 1..DaysInMonth(date[2], date[3])

\* A plausible slip: the exception is raised again to the caller.
Handled_Reraised(exception) == "raised"

\* `except ValueError as e: return f"Error: ..."` and
\* `except Exception as e: return f"Error ...: {str(e)}"`, the two clauses that
\* close the body of each tool of the service: what was raised is returned.
Handled(exception) == "error"

\* f"BK{digits}", digits drawn at random
generate_booking_id(digits) == <<"BK", digits>>

\* A plausible slip: the price is not checked.
app_book_flight_NoPriceCheck(spent, flight_number, passenger_name, price, date, seat, digits) ==
    IF flight_number = EMPTY \/ passenger_name = EMPTY
    THEN BookResult("error", "Flight number and passenger name are required", NoConf, 0, spent)
    ELSE IF ~ValidDate(date)
    THEN BookResult("error", "Invalid date format", NoConf, 0, spent)
    ELSE IF seat
    THEN BookResult("success", "", generate_booking_id(digits), price, spent)
    ELSE BookResult("error", "Booking failed due to seat unavailability", NoConf, 0, spent)

\* book_flight(flight_number, passenger_name, price, date); seat is the outcome
\* of `random.random() < 0.95`, digits the draw of generate_booking_id.
app_book_flight(spent, flight_number, passenger_name, price, date, seat, digits) ==
    IF flight_number = EMPTY \/ passenger_name = EMPTY
    THEN BookResult("error", "Flight number and passenger name are required", NoConf, 0, spent)
    ELSE IF price <= 0
    THEN BookResult("error", "Invalid price", NoConf, 0, spent)
    ELSE IF ~ValidDate(date)
    THEN BookResult(Handled("ValueError"), "Invalid date format", NoConf, 0, spent)
    ELSE IF seat
    THEN BookResult("success", "", generate_booking_id(digits), price, spent)
    ELSE BookResult("error", "Booking failed due to seat unavailability", NoConf, 0, spent)

\* One call for each way through the function: a missing flight number, a
\* missing passenger name, a price that is not positive, a day that does not
\* exist, well-formed calls priced within and above BUDGET_LIMIT, and a
\* negative price together with a day that does not exist.
AppBookInputs ==
    { <<EMPTY, <<"Alice">>, 500, <<25, 11, 2025>> >>,
      << <<"AI101">>, EMPTY, 500, <<25, 11, 2025>> >>,
      << <<"AI101">>, <<"Alice">>, 0, <<25, 11, 2025>> >>,
      << <<"AI101">>, <<"Alice">>, 500, <<31, 2, 2025>> >>,
      << <<"AI101">>, <<"Alice">>, 500, <<25, 11, 2025>> >>,
      << <<"AI101">>, <<"Alice">>, 1500, <<25, 11, 2025>> >>,
      << <<"AI101">>, <<"Alice">>, -100, <<31, 2, 2025>> >> }

AppBookFlight ==
    /\ ncalls < MaxCalls
    /\ \E in \in AppBookInputs, seat \in BOOLEAN, digits \in 0..MaxDraw :
         LET r == app_book_flight(total_spending, in[1], in[2], in[3], in[4], seat, digits) IN
           /\ total_spending' = r.total_spending
           /\ Record(CallRec("app_book_flight", in, r, total_spending))
           /\ issued' = IF r.outcome = "success"
                        THEN issued (+) SetToBag({r.confirmation})
                        ELSE issued
    /\ UNCHANGED <<extracted, reasoning_steps, rpc, isteps, response, hashseed, charged_total, pc, frame>>

NextApp == AppBookFlight

SpecApp == Init /\ [][NextApp]_vars

-----------------------------------------------------------------------------
(* Both booking tools against the one ledger: a process that calls either. *)

NextTools == BookFlight \/ AddToCalendar \/ ResetSpending \/ AppBookFlight

SpecTools == Init /\ [][NextTools]_vars

-----------------------------------------------------------------------------
(* Tool output as text.  What a tool returns is a sequence of segments, each  *)
(* n characters long, of which the first m are present (m < n only in the     *)
(* segment that a truncation cut):                                           *)
(*   plain  text in which none of the extractor's patterns occurs (k is the   *)
(*          text, or a sketch of it);                                         *)
(*   str    'k': 'v'      a key and a quoted string;                         *)
(*   int    'k': 123      a key and an integer;                              *)
(*   float  'k': 123.0    a key and a float that is a whole number.          *)
(* kl is the length of the part `'k': ` that precedes the value.              *)

Plain(label, n) == [t |-> "plain", k |-> label, v |-> <<>>, n |-> n, m |-> n, kl |-> 0]

\* len(str(n)) for n >= 0
RECURSIVE Digits(_)
Digits(n) == IF n < 10 THEN 1 ELSE 1 + Digits(n \div 10)

RECURSIVE Pow10(_)
Pow10(e) == IF e = 0 THEN 1 ELSE 10 * Pow10(e - 1)

\* len(str(n)) for any integer
IntLen(n) == IF n < 0 THEN 1 + Digits(-n) ELSE Digits(n)

StrField(key, keylen, val, vallen) ==
    [t |-> "str", k |-> key, v |-> val, n |-> keylen + 4 + vallen + 2, m |-> keylen + 4 + vallen + 2,
     kl |-> keylen + 4]

IntField(key, keylen, val) ==
    [t |-> "int", k |-> key, v |-> <<val>>, n |-> keylen + 4 + IntLen(val), m |-> keylen + 4 + IntLen(val),
     kl |-> keylen + 4]

FloatField(key, keylen, val) ==
    [t |-> "float", k |-> key, v |-> <<val>>, n |-> keylen + 4 + IntLen(val) + 2,
     m |-> keylen + 4 + IntLen(val) + 2, kl |-> keylen + 4]

RECURSIVE TextLen(_)
TextLen(text) == IF text = <<>> THEN 0 ELSE Head(text).m + TextLen(Tail(text))

\* A plausible slip: the text is stored whole.
Truncate_Whole(text, limit) == text

\* text[:limit]
RECURSIVE Truncate(_, _)
Truncate(text, limit) ==
    IF text = <<>> \/ limit <= 0 THEN <<>>
    ELSE IF Head(text).m <= limit
         THEN <<Head(text)>> \o Truncate(Tail(text), limit - Head(text).m)
         ELSE <<[Head(text) EXCEPT !.m = limit]>>

\* re.search(r"'key':\s*'([^']+)'", ...) matches in this segment: the quoted
\* value is there up to its closing quote, and is not empty.
StrMatches(seg, key) ==
    /\ seg.t = "str"
    /\ seg.k = key
    /\ seg.m = seg.n
    /\ seg.n > seg.kl + 2

\* re.search(r"'key':\s*(\d+(?:\.\d+)?)", ...) matches in this segment: at
\* least one digit follows the key (a minus sign is no digit).
NumMatches(seg, key) ==
    /\ seg.t \in {"int", "float"}
    /\ seg.k = key
    /\ seg.v[1] >= 0
    /\ seg.m >= seg.kl + 1

\* float(match.group(1)): the digits that are present.
NumValue(seg) ==
    LET d == Digits(seg.v[1])
        present == IF seg.m - seg.kl >= d THEN d ELSE seg.m - seg.kl
    IN  seg.v[1] \div Pow10(d - present)

\* `"flights_found" in observation`
HasFlightsFound(obs) ==
    \E i \in 1..Len(obs) : obs[i].k = "flights_found" /\ obs[i].m >= 14

-----------------------------------------------------------------------------
(* The service's search and calendar tools, and what each tool returns as     *)
(* text.                                                                     *)

\* len(s) of the strings the tools are called with
StrLen(s) ==
    CASE s = "" -> 0
      [] s = "Alice" -> 5
      [] s = "Bob" -> 3
      [] s = "x 'price': 1" -> 12
      [] s = "delhi" -> 5
      [] s = "mumbai" -> 6
      [] s = "Delhi (DEL)" -> 11
      [] s = "Mumbai (BOM)" -> 12
      [] s = "Flight to Mumbai" -> 16
      [] s = "Air India" -> 9
      [] s = "IndiGo" -> 6
      [] s = "SpiceJet" -> 8
      [] s = "Vistara" -> 7
      [] s = "Go First" -> 8
      [] OTHER -> 5

MOCK_FLIGHTS ==
    << [airline |-> "Air India", base_price |-> 4500, flight_prefix |-> "AI"],
       [airline |-> "IndiGo", base_price |-> 4200, flight_prefix |-> "6E"],
       [airline |-> "SpiceJet", base_price |-> 3800, flight_prefix |-> "SG"],
       [airline |-> "Vistara", base_price |-> 5200, flight_prefix |-> "UK"],
       [airline |-> "Go First", base_price |-> 3600, flight_prefix |-> "G8"] >>

\* CITIES.get(city.lower().strip(), city)
CityDisplay(city) ==
    CASE city = "delhi" -> "Delhi (DEL)"
      [] city = "mumbai" -> "Mumbai (BOM)"
      [] OTHER -> city

\* A plausible slip: the price filter is left out.
RECURSIVE available_flights_NoFilter(_, _, _, _)
available_flights_NoFilter(i, max_price, variance, number) ==
    IF i > Len(MOCK_FLIGHTS) THEN <<>>
    ELSE <<[flight_number |-> <<MOCK_FLIGHTS[i].flight_prefix, number[i]>>,
            airline |-> MOCK_FLIGHTS[i].airline,
            price |-> MOCK_FLIGHTS[i].base_price + variance[i]]>>
             \o available_flights_NoFilter(i + 1, max_price, variance, number)

\* The loop over MOCK_FLIGHTS: flight i is priced base_price + variance[i] and
\* kept when that is within max_price; number[i] is its draw of randint(100, 999).
RECURSIVE available_flights(_, _, _, _)
available_flights(i, max_price, variance, number) ==
    IF i > Len(MOCK_FLIGHTS) THEN <<>>
    ELSE LET price == MOCK_FLIGHTS[i].base_price + variance[i]
             flight == [flight_number |-> <<MOCK_FLIGHTS[i].flight_prefix, number[i]>>,
                        airline |-> MOCK_FLIGHTS[i].airline,
                        price |-> price]
         IN  (IF price <= max_price THEN <<flight>> ELSE <<>>)
                 \o available_flights(i + 1, max_price, variance, number)

\* Insertion of one flight into a list sorted by price, after the flights of
\* the same price (list.sort is stable).
RECURSIVE InsertByPrice(_, _)
InsertByPrice(f, sorted) ==
    IF sorted = <<>> THEN <<f>>
    ELSE IF f.price < Head(sorted).price THEN <<f>> \o sorted
    ELSE <<Head(sorted)>> \o InsertByPrice(f, Tail(sorted))

\* A plausible slip: the list is left in the order of MOCK_FLIGHTS.
SortByPrice_Unsorted(flights) == flights

\* available_flights.sort(key=lambda x: x['price'])
RECURSIVE SortByPrice(_)
SortByPrice(flights) ==
    IF flights = <<>> THEN <<>>
    ELSE InsertByPrice(flights[Len(flights)], SortByPrice(SubSeq(flights, 1, Len(flights) - 1)))

\* flights[:3]
Top3(flights) == SubSeq(flights, 1, Min(3, Len(flights)))

\* str() of one flight of the result
FlightText(f, dep_display, dest_display) ==
    << StrField("flight_number", 13, f.flight_number, 5),
       Plain(", 'airline': '...', ", 2 + 11 + StrLen(f.airline) + 2 + 2),
       Plain("'departure': '...', ", 13 + StrLen(dep_display) + 2 + 2),
       Plain("'destination': '...', ", 15 + StrLen(dest_display) + 2 + 2),
       Plain("'departure_time': 'HH:MM', ", 27),
       Plain("'arrival_time': 'HH:MM', ", 25),
       IntField("price", 5, f.price),
       Plain(", 'duration': '2h 30m', 'date': 'DD-MM-YYYY'}", 45) >>

RECURSIVE FlightsText(_, _, _)
FlightsText(flights, dep_display, dest_display) ==
    IF flights = <<>> THEN <<>>
    ELSE (IF Len(flights) > 1
          THEN FlightText(Head(flights), dep_display, dest_display) \o <<Plain(", {", 3)>>
          ELSE FlightText(Head(flights), dep_display, dest_display))
             \o FlightsText(Tail(flights), dep_display, dest_display)

SearchResult(outcome, flights_found, flights) ==
    [outcome |-> outcome, flights_found |-> flights_found, flights |-> flights]

\* A plausible slip: an empty list is answered as a success.
app_search_result_EmptySuccess(max_price, booking_date, variance, number) ==
    LET found == SortByPrice(available_flights(1, max_price, variance, number))
    IN  IF ~ValidDate(booking_date) THEN SearchResult("error", 0, <<>>)
        ELSE SearchResult("success", Len(found), Top3(found))

\* search_flights(departure, destination, max_price, booking_date) before it
\* is made a string: the date is parsed, the flights are generated, filtered
\* and sorted, and the first three are exposed.
app_search_result(max_price, booking_date, variance, number) ==
    LET found == SortByPrice(available_flights(1, max_price, variance, number))
    IN  IF ~ValidDate(booking_date) THEN SearchResult(Handled("ValueError"), 0, <<>>)
        ELSE IF found = <<>> THEN SearchResult("no_flights", 0, <<>>)
        ELSE SearchResult("success", Len(found), Top3(found))

\* What search_flights returns.
app_search_flights(departure, destination, max_price, booking_date, variance, number) ==
    LET dep_display == CityDisplay(departure)
        dest_display == CityDisplay(destination)
        result == app_search_result(max_price, booking_date, variance, number)
    IN  IF result.outcome = "error"
        THEN <<Plain("Error: Invalid date format. Please use DD-MM-YYYY format. Details: ...", 110)>>
        ELSE IF result.outcome = "no_flights"
        THEN <<Plain("No flights found from ... to ... within budget of ...", 60)>>
        ELSE << Plain("{'status': 'success', ", 22),
                IntField("flights_found", 13, result.flights_found),
                Plain(", 'flights': [{", 15) >>
             \o FlightsText(result.flights, dep_display, dest_display)
             \o <<Plain("], 'message': 'Found ... flights from ... to ... on ...'}", 80)>>

\* repr() of a string: between double quotes when the string holds a single
\* quote, and then whatever the string spells is met by a pattern as it stands.
Repr(s) ==
    IF s = <<"x 'price': 1">>
    THEN <<Plain("(double quote)x ", 3), IntField("price", 5, 1), Plain("(double quote)", 1)>>
    ELSE <<Plain(s[1], StrLen(s[1]) + 2)>>

\* What book_flight returns: str(result) of a booking, the error text otherwise.
book_flight_text(r, flight_number, passenger_name, price) ==
    IF r.outcome = "success"
    THEN << Plain("{'status': 'success', ", 22),
            StrField("booking_id", 10, r.confirmation, 8),
            Plain(", 'pnr': 'XXXXXX', ", 19),
            StrField("flight_number", 13, flight_number, 5),
            Plain(", 'passenger_name': ", 20) >>
         \o Repr(passenger_name)
         \o << Plain(", ", 2),
               FloatField("price", 5, price),
               Plain(", 'travel_date': ..., 'booking_time': ..., 'message': ..., ...}", 190) >>
    ELSE <<Plain(r.reason, 80)>>

\* f"CAL{digits}", digits drawn at random
generate_event_id(digits) == <<"CAL", digits>>

\* datetime.strptime(event_time, '%H:%M') does not raise; a time is <<HH, MM>>
ValidTime(time) == Len(time) = 2 /\ time[1] \in 0..23 /\ time[2] \in 0..59

\* A plausible slip: the date and the time are not parsed.
app_add_to_calendar_result_NoParse(event_title, event_date, event_time, synced, digits) ==
    IF event_title = "" \/ event_date = <<>> \/ event_time = <<>>
    THEN BookResult("error", "Event title, date, and time are required", NoConf, 0, 0)
    ELSE IF synced
    THEN BookResult("success", "", generate_event_id(digits), 0, 0)
    ELSE BookResult("error", "Failed to add event to calendar", NoConf, 0, 0)

\* add_to_calendar(event_title, event_date, event_time) before it is made a
\* string; synced is the outcome of `random.random() < 0.98`, digits the draw
\* of generate_event_id.
app_add_to_calendar_result(event_title, event_date, event_time, synced, digits) ==
    IF event_title = "" \/ event_date = <<>> \/ event_time = <<>>
    THEN BookResult("error", "Event title, date, and time are required", NoConf, 0, 0)
    ELSE IF ~ValidDate(event_date) \/ ~ValidTime(event_time)
    THEN BookResult(Handled("ValueError"), "Invalid date/time format", NoConf, 0, 0)
    ELSE IF synced
    THEN BookResult("success", "", generate_event_id(digits), 0, 0)
    ELSE BookResult("error", "Failed to add event to calendar", NoConf, 0, 0)

\* What add_to_calendar returns.
app_add_to_calendar(event_title, event_date, event_time, synced, digits) ==
    LET r == app_add_to_calendar_result(event_title, event_date, event_time, synced, digits)
    IN  IF r.outcome = "success"
        THEN << Plain("{'status': 'success', ", 22),
                StrField("event_id", 8, r.confirmation, 9),
                Plain(", 'title': ..., 'date': ..., 'time': ..., 'description': ..., ...}", 300) >>
        ELSE IF r.reason = "Event title, date, and time are required"
        THEN <<Plain("Error: Event title, date, and time are required", 47)>>
        ELSE IF r.reason = "Invalid date/time format"
        THEN <<Plain("Error: Invalid date/time format. Use DD-MM-YYYY for date and HH:MM for time. ...", 130)>>
        ELSE <<Plain("Error: Failed to add event to calendar. Please try again.", 57)>>

-----------------------------------------------------------------------------
(* The orchestrator: FlightBookingAgent and the endpoint that calls it. *)

\* The first segment of an observation in which a quoted value follows key
\* (re.search returns the leftmost match), None when there is none.
SearchStr(observation, key) ==
    LET I == {i \in 1..Len(observation) : StrMatches(observation[i], key)}
    IN  IF I = {} THEN None
        ELSE observation[CHOOSE i \in I : \A j \in I : i <= j].v

\* A plausible slip: the rightmost match of the observation.
SearchNum_Rightmost(observation, key) ==
    LET I == {i \in 1..Len(observation) : NumMatches(observation[i], key)}
    IN  IF I = {} THEN None
        ELSE <<NumValue(observation[CHOOSE i \in I : \A j \in I : i >= j])>>

\* The same for a number that follows key.
SearchNum(observation, key) ==
    LET I == {i \in 1..Len(observation) : NumMatches(observation[i], key)}
    IN  IF I = {} THEN None
        ELSE <<NumValue(observation[CHOOSE i \in I : \A j \in I : i <= j])>>

\* The loop over the steps, for one field: a step that matches overwrites what
\* the steps before it set.
RECURSIVE ScanStr(_, _, _)
ScanStr(steps, key, found) ==
    IF steps = <<>> THEN found
    ELSE LET match == SearchStr(Head(steps).observation, key)
         IN  ScanStr(Tail(steps), key, IF match # None THEN match ELSE found)

RECURSIVE ScanNum(_, _, _)
ScanNum(steps, key, found) ==
    IF steps = <<>> THEN found
    ELSE LET match == SearchNum(Head(steps).observation, key)
         IN  ScanNum(Tail(steps), key, IF match # None THEN match ELSE found)

\* A plausible slip: a booking alone counts as failed unless the calendar
\* entry was made too.
Status_BookedIsFailed(booking_id, calendar_event_id, steps) ==
    IF booking_id # None /\ calendar_event_id # None THEN "confirmed"
    ELSE IF \E i \in 1..Len(steps) : HasFlightsFound(steps[i].observation) THEN "found"
    ELSE "failed"

\* A plausible slip: the search is looked at before the booking id.
Status_FoundFirst(booking_id, calendar_event_id, steps) ==
    IF booking_id # None /\ calendar_event_id # None THEN "confirmed"
    ELSE IF \E i \in 1..Len(steps) : HasFlightsFound(steps[i].observation) THEN "found"
    ELSE IF booking_id # None THEN "booked"
    ELSE "failed"

\* A plausible slip: the booking id alone is looked at first.
Status_BookedFirst(booking_id, calendar_event_id, steps) ==
    IF booking_id # None THEN "booked"
    ELSE IF booking_id # None /\ calendar_event_id # None THEN "confirmed"
    ELSE IF \E i \in 1..Len(steps) : HasFlightsFound(steps[i].observation) THEN "found"
    ELSE "failed"

\* A plausible slip: an empty trace makes the status determination raise, and
\* the handler leaves the status at "unknown".
Status_UnknownOnEmpty(booking_id, calendar_event_id, steps) ==
    IF steps = <<>> THEN "unknown"
    ELSE IF booking_id # None /\ calendar_event_id # None THEN "confirmed"
    ELSE IF booking_id # None THEN "booked"
    ELSE IF \E i \in 1..Len(steps) : HasFlightsFound(steps[i].observation) THEN "found"
    ELSE "failed"

\* A plausible slip: the closing else is left out, and the initial value stays.
Status_NoElse(booking_id, calendar_event_id, steps) ==
    IF booking_id # None /\ calendar_event_id # None THEN "confirmed"
    ELSE IF booking_id # None THEN "booked"
    ELSE IF \E i \in 1..Len(steps) : HasFlightsFound(steps[i].observation) THEN "found"
    ELSE "unknown"

\* "Determine status"
Status(booking_id, calendar_event_id, steps) ==
    IF booking_id # None /\ calendar_event_id # None THEN "confirmed"
    ELSE IF booking_id # None THEN "booked"
    ELSE IF \E i \in 1..Len(steps) : HasFlightsFound(steps[i].observation) THEN "found"
    ELSE "failed"

\* extract_booking_details, over self.reasoning_steps
extract_booking_details(steps) ==
    LET booking_id == ScanStr(steps, "booking_id", None)
        calendar_event_id == ScanStr(steps, "event_id", None)
    IN  [booking_id |-> booking_id,
         flight_number |-> ScanStr(steps, "flight_number", None),
         price |-> ScanNum(steps, "price", None),
         calendar_event_id |-> calendar_event_id,
         status |-> Status(booking_id, calendar_event_id, steps)]

\* A plausible slip: the steps are consumed as they are read.
StepsAfterExtract_Drained(steps) == <<>>

\* self.reasoning_steps after extract_booking_details has gone through it:
\* the loop reads each step with step.get and assigns nothing.
StepsAfterExtract(steps) == steps

\* What the loop over result["intermediate_steps"] appends.
RECURSIVE Reasoning(_)
Reasoning(intermediate_steps) ==
    IF intermediate_steps = <<>> THEN <<>>
    ELSE <<[Head(intermediate_steps) EXCEPT !.observation = Truncate(@, 200)]>>
             \o Reasoning(Tail(intermediate_steps))

\* A plausible slip: the handler lets the executor's exception through.
process_booking_request_Propagates(shared, intermediate_steps, error) ==
    IF error
    THEN [success |-> FALSE, raised |-> TRUE, reasoning_steps |-> shared]
    ELSE [success |-> TRUE, raised |-> FALSE,
          reasoning_steps |-> shared \o Reasoning(intermediate_steps)]

\* process_booking_request from the executor's return on: shared is
\* self.reasoning_steps at that moment, error says that ainvoke raised.
process_booking_request(shared, intermediate_steps, error) ==
    IF error
    THEN [success |-> FALSE, raised |-> FALSE, reasoning_steps |-> shared]
    ELSE [success |-> TRUE, raised |-> FALSE,
          reasoning_steps |-> shared \o Reasoning(intermediate_steps)]

\* book_flight_endpoint from `result = await ...` on; forced tells that the
\* executor stopped the run at the iteration ceiling.
book_flight_endpoint(result, forced) ==
    LET steps == result.reasoning_steps
        details == extract_booking_details(steps)
    IN  IF result.raised
        THEN [returned |-> FALSE, propagated |-> TRUE, success |-> FALSE, forced |-> forced,
              status |-> "http 500", booking_id |-> None, calendar_event_id |-> None,
              flight_number |-> None, price |-> None, agent_reasoning |-> <<>>]
        ELSE IF ~result.success
        THEN [returned |-> TRUE, propagated |-> FALSE, success |-> FALSE, forced |-> forced,
              status |-> "failed", booking_id |-> None, calendar_event_id |-> None,
              flight_number |-> None, price |-> None,
              agent_reasoning |-> [i \in 1..Len(steps) |-> <<steps[i].action>>]]
        ELSE [returned |-> TRUE, propagated |-> FALSE, success |-> TRUE, forced |-> forced,
              status |-> details.status, booking_id |-> details.booking_id,
              calendar_event_id |-> details.calendar_event_id,
              flight_number |-> details.flight_number, price |-> details.price,
              agent_reasoning |-> [i \in 1..Len(steps) |-> <<steps[i].action, steps[i].input>>]]

\* What the planner may ask for.  Searches with a budget that the cheapest
\* flight meets only when its price is drawn low; bookings of the flight found,
\* of another flight for a passenger whose name holds a quote, and one that
\* names no flight; calendar entries with and without a title.
TravelDate == <<25, 11, 2025>>

PlannedCalls ==
    { [tool |-> "search_flights", args |-> <<"delhi", "mumbai", 3500, TravelDate>>],
      [tool |-> "book_flight", args |-> << <<"G8", 101>>, <<"Alice">>, 3100, TravelDate>>],
      [tool |-> "book_flight", args |-> << <<"AI", 101>>, <<"x 'price': 1">>, 4500, TravelDate>>],
      [tool |-> "book_flight", args |-> <<EMPTY, <<"Alice">>, 3100, TravelDate>>],
      [tool |-> "add_to_calendar", args |-> <<"Flight to Mumbai", TravelDate, <<6, 0>> >>],
      [tool |-> "add_to_calendar", args |-> <<"", TravelDate, <<6, 0>> >>] }

\* The draws of random.randint(-500, 500), one for each entry of MOCK_FLIGHTS,
\* and of random.randint(100, 999).
VarianceDraws == {<<0, 0, 0, 0, 0>>, <<-500, -500, -500, -500, -500>>}

NumberDraws == {<<101, 101, 101, 101, 101>>}

\* The draws of random.choices(string.digits, k=6)
IdDraws == {0, 1}

\* The observations the call can come back with.
Observations(call) ==
    CASE call.tool = "search_flights" ->
           { app_search_flights(call.args[1], call.args[2], call.args[3], call.args[4], v, n) :
               v \in VarianceDraws, n \in NumberDraws }
      [] call.tool = "book_flight" ->
           { book_flight_text(app_book_flight(0, call.args[1], call.args[2], call.args[3],
                                              call.args[4], seat, digits),
                              call.args[1], call.args[2], call.args[3]) :
               seat \in BOOLEAN, digits \in IdDraws }
      [] call.tool = "add_to_calendar" ->
           { app_add_to_calendar(call.args[1], call.args[2], call.args[3], synced, digits) :
               synced \in BOOLEAN, digits \in IdDraws }

\* The tool calls made by the runs of R that are in the executors' hands or
\* were when they ended.
RECURSIVE StepsTaken(_)
StepsTaken(R) ==
    IF R = {} THEN 0
    ELSE LET r == CHOOSE x \in R : TRUE IN Len(isteps[r]) + StepsTaken(R \ {r})

\* process_booking_request up to the await: line 60, then the executor starts.
StartRun(r) ==
    /\ rpc[r] \in {"idle", "done"}
    /\ reasoning_steps' = <<>>
    /\ rpc' = [rpc EXCEPT ![r] = "running"]
    /\ isteps' = [isteps EXCEPT ![r] = <<>>]
    /\ response' = [response EXCEPT ![r] = NoResponse]
    /\ UNCHANGED <<total_spending, hashseed, last, prev, ncalls, issued, charged_total, pc, frame, extracted>>

\* One iteration of the executor: the planner names a call, the tool runs, the
\* pair is added to the executor's intermediate steps.
ToolStep(r) ==
    /\ rpc[r] = "running"
    /\ Len(isteps[r]) < max_iterations
    /\ StepsTaken(Runs) < MaxSteps
    /\ \E call \in PlannedCalls :
         \E observation \in Observations(call) :
           isteps' = [isteps EXCEPT ![r] = Append(@, [action |-> call.tool, input |-> call.args,
                                                      observation |-> observation])]
    /\ UNCHANGED <<reasoning_steps, rpc, response>>
    /\ UNCHANGED <<total_spending, hashseed, last, prev, ncalls, issued, charged_total, pc, frame, extracted>>

\* The executor comes back, the planner having finished or the ceiling having
\* stopped it; the steps are appended and the endpoint builds its response with
\* no await in between.
ReturnRun(r) ==
    /\ rpc[r] = "running"
    /\ LET result == process_booking_request(reasoning_steps, isteps[r], FALSE) IN
         /\ reasoning_steps' = result.reasoning_steps
         /\ response' = [response EXCEPT
                           ![r] = book_flight_endpoint(result, Len(isteps[r]) = max_iterations)]
    /\ rpc' = [rpc EXCEPT ![r] = "done"]
    /\ UNCHANGED isteps
    /\ UNCHANGED <<total_spending, hashseed, last, prev, ncalls, issued, charged_total, pc, frame, extracted>>

\* The executor raises in the middle of an iteration.
RaiseRun(r) ==
    /\ rpc[r] = "running"
    /\ Len(isteps[r]) < max_iterations
    /\ LET result == process_booking_request(reasoning_steps, isteps[r], TRUE) IN
         /\ reasoning_steps' = result.reasoning_steps
         /\ response' = [response EXCEPT ![r] = book_flight_endpoint(result, FALSE)]
    /\ rpc' = [rpc EXCEPT ![r] = "done"]
    /\ UNCHANGED isteps
    /\ UNCHANGED <<total_spending, hashseed, last, prev, ncalls, issued, charged_total, pc, frame, extracted>>

\* One request at a time.
NextRun == StartRun(1) \/ ToolStep(1) \/ ReturnRun(1) \/ RaiseRun(1)

SpecRun == Init /\ [][NextRun]_vars

\* Requests that overlap on the one agent of the service, each made once.
NextRuns ==
    \E r \in Runs : (rpc[r] = "idle" /\ StartRun(r)) \/ ToolStep(r) \/ ReturnRun(r) \/ RaiseRun(r)

SpecRuns == Init /\ [][NextRuns]_vars

-----------------------------------------------------------------------------
(* A process that calls the search tools: search_flights of the service and   *)
(* search_flights of the script.                                             *)

\* Draws of random.randint(-500, 500) for the five entries of MOCK_FLIGHTS: no
\* variance, the two ends of the range, a draw that changes the order of the
\* flights, and one that makes three prices equal.
NoVariance == <<0, 0, 0, 0, 0>>
LowestPrices == <<-500, -500, -500, -500, -500>>
HighestPrices == <<500, 500, 500, 500, 500>>
Reordered == <<-500, 0, 500, -500, 500>>
EqualPrices == <<-300, 0, 400, -500, 500>>

\* Calls <<max_price, booking_date, variance>>: budgets below every price,
\* equal to the lowest price that can be drawn, between the prices and above
\* them all, 0 and a negative budget; a day that does not exist and a text
\* that is no date, with and without flights within the budget.
AppSearchInputs ==
    { <<3000, TravelDate, NoVariance>>,
      <<3100, TravelDate, NoVariance>>,
      <<3100, TravelDate, LowestPrices>>,
      <<4200, TravelDate, NoVariance>>,
      <<4200, TravelDate, Reordered>>,
      <<4200, TravelDate, EqualPrices>>,
      <<6000, TravelDate, NoVariance>>,
      <<6000, TravelDate, HighestPrices>>,
      <<6000, TravelDate, Reordered>>,
      <<6000, TravelDate, EqualPrices>>,
      <<0, TravelDate, NoVariance>>,
      <<-100, TravelDate, LowestPrices>>,
      <<6000, <<31, 2, 2025>>, NoVariance>>,
      <<3000, <<31, 2, 2025>>, NoVariance>>,
      <<6000, <<"tomorrow">>, NoVariance>> }

\* search_flights.invoke({...}) of the service, with its draws.
AppSearchFlights ==
    /\ ncalls < MaxCalls
    /\ \E in \in AppSearchInputs, number \in NumberDraws :
         LET r == app_search_result(in[1], in[2], in[3], number) IN
           Record([tool |-> "app_search_flights",
                   args |-> <<"delhi", "mumbai", in[1], in[2], in[3], number>>,
                   outcome |-> r.outcome, reason |-> "", confirmation |-> NoConf,
                   charged |-> 0, before |-> total_spending, after |-> total_spending,
                   flights_found |-> r.flights_found, flights |-> r.flights,
                   text |-> app_search_flights("delhi", "mumbai", in[1], in[2], in[3], number)])
    /\ UNCHANGED <<total_spending, hashseed, issued, charged_total, pc, frame>>
    /\ UNCHANGED <<reasoning_steps, rpc, isteps, response, extracted>>

NextSearch == AppSearchFlights \/ SearchFlights

SpecSearch == Init /\ [][NextSearch]_vars

-----------------------------------------------------------------------------
(* A process that calls add_to_calendar of the service. *)

\* Calls <<event_title, event_date, event_time>>: a well-formed one, one on
\* the leap day of a leap year, days that do not exist (31 and 29 February,
\* day 0), month 13, year 0, a text that is no date, hour 24, minute 60, a
\* text that is no time, and calls with the title, the date or the time empty.
AppCalendarInputs ==
    { <<"Flight to Mumbai", TravelDate, <<6, 0>> >>,
      <<"Flight to Mumbai", <<29, 2, 2024>>, <<23, 59>> >>,
      <<"Flight to Mumbai", <<31, 2, 2025>>, <<6, 0>> >>,
      <<"Flight to Mumbai", <<29, 2, 2025>>, <<6, 0>> >>,
      <<"Flight to Mumbai", <<0, 1, 2025>>, <<6, 0>> >>,
      <<"Flight to Mumbai", <<15, 13, 2025>>, <<6, 0>> >>,
      <<"Flight to Mumbai", <<1, 1, 0>>, <<6, 0>> >>,
      <<"Flight to Mumbai", <<"tomorrow">>, <<6, 0>> >>,
      <<"Flight to Mumbai", TravelDate, <<24, 0>> >>,
      <<"Flight to Mumbai", TravelDate, <<6, 60>> >>,
      <<"Flight to Mumbai", TravelDate, <<"noon">> >>,
      <<"", TravelDate, <<6, 0>> >>,
      <<"Flight to Mumbai", <<>>, <<6, 0>> >>,
      <<"Flight to Mumbai", TravelDate, <<>> >> }

\* add_to_calendar.invoke({...}) of the service, with its draws.
AppAddToCalendar ==
    /\ ncalls < MaxCalls
    /\ \E in \in AppCalendarInputs, synced \in BOOLEAN, digits \in IdDraws :
         LET r == app_add_to_calendar_result(in[1], in[2], in[3], synced, digits) IN
           Record([tool |-> "app_add_to_calendar", args |-> in,
                   outcome |-> r.outcome, reason |-> r.reason, confirmation |-> r.confirmation,
                   charged |-> 0, before |-> total_spending, after |-> total_spending,
                   text |-> app_add_to_calendar(in[1], in[2], in[3], synced, digits)])
    /\ UNCHANGED <<total_spending, hashseed, issued, charged_total, pc, frame>>
    /\ UNCHANGED <<reasoning_steps, rpc, isteps, response, extracted>>

NextCalendar == AppAddToCalendar

SpecCalendar == Init /\ [][NextCalendar]_vars

-----------------------------------------------------------------------------
(* A process that calls any of the three tools of the service. *)

\* The process makes at most MaxServiceCalls calls.
NextService ==
    \/ ncalls < MaxServiceCalls /\ AppSearchFlights
    \/ ncalls < MaxServiceCalls /\ AppBookFlight
    \/ ncalls < MaxServiceCalls /\ AppAddToCalendar

SpecService == Init /\ [][NextService]_vars

-----------------------------------------------------------------------------
(* extract_booking_details on the traces that runs leave behind. *)

\* One step of each kind that the tools produce: searches that found flights
\* (with the first flight's price beyond the 200 characters, cut after its
\* first digit, and cut before it), a search that found none, bookings that
\* succeeded and one that failed, calendar entries made and not made.
ExtractSteps ==
    Reasoning(<<
      [action |-> "search_flights", input |-> <<>>,
       observation |-> app_search_flights("delhi", "mumbai", 3500, TravelDate,
                                          <<-500, -500, -500, -500, -500>>, <<101, 101, 101, 101, 101>>)],
      [action |-> "search_flights", input |-> <<>>,
       observation |-> app_search_flights("", "", 6000, TravelDate,
                                          <<0, -500, 500, 0, 500>>, <<101, 101, 101, 101, 101>>)],
      [action |-> "search_flights", input |-> <<>>,
       observation |-> app_search_flights("", "", 6000, TravelDate,
                                          <<0, 0, -500, 0, 500>>, <<101, 101, 101, 101, 101>>)],
      [action |-> "search_flights", input |-> <<>>,
       observation |-> app_search_flights("delhi", "mumbai", 3000, TravelDate,
                                          <<0, 0, 0, 0, 0>>, <<101, 101, 101, 101, 101>>)],
      [action |-> "book_flight", input |-> <<>>,
       observation |-> book_flight_text(
           app_book_flight(0, <<"G8", 101>>, <<"Alice">>, 3100, TravelDate, TRUE, 0),
           <<"G8", 101>>, <<"Alice">>, 3100)],
      [action |-> "book_flight", input |-> <<>>,
       observation |-> book_flight_text(
           app_book_flight(0, <<"AI", 101>>, <<"x 'price': 1">>, 4500, TravelDate, TRUE, 1),
           <<"AI", 101>>, <<"x 'price': 1">>, 4500)],
      [action |-> "book_flight", input |-> <<>>,
       observation |-> book_flight_text(
           app_book_flight(0, <<"G8", 101>>, <<"Alice">>, 3100, TravelDate, FALSE, 0),
           <<"G8", 101>>, <<"Alice">>, 3100)],
      [action |-> "add_to_calendar", input |-> <<>>,
       observation |-> app_add_to_calendar("Flight to Mumbai", TravelDate, <<6, 0>>, TRUE, 0)],
      [action |-> "add_to_calendar", input |-> <<>>,
       observation |-> app_add_to_calendar("Flight to Mumbai", TravelDate, <<6, 0>>, FALSE, 0)] >>)

\* The traces of at most n of these steps.
RECURSIVE TracesUpTo(_)
TracesUpTo(n) ==
    IF n = 0 THEN {<<>>}
    ELSE TracesUpTo(n - 1) \cup
         {Append(t, ExtractSteps[i]) : t \in {u \in TracesUpTo(n - 1) : Len(u) = n - 1},
                                       i \in 1..Len(ExtractSteps)}

InitExtract ==
    /\ total_spending = 0
    /\ hashseed = 0
    /\ last = NoCall
    /\ prev = NoCall
    /\ ncalls = 0
    /\ issued = EmptyBag
    /\ charged_total = 0
    /\ pc = IdleThreads
    /\ frame = NoFrames
    /\ reasoning_steps \in TracesUpTo(MaxTrace)
    /\ rpc = [r \in Runs |-> "idle"]
    /\ isteps = [r \in Runs |-> <<>>]
    /\ response = [r \in Runs |-> NoResponse]
    /\ extracted = <<>>

\* agent.extract_booking_details(result), once more on the trace as it is.
ExtractDetails ==
    /\ Len(extracted) < MaxExtracts
    /\ extracted' = Append(extracted, extract_booking_details(reasoning_steps))
    /\ reasoning_steps' = StepsAfterExtract(reasoning_steps)
    /\ UNCHANGED <<total_spending, hashseed, last, prev, ncalls, issued, charged_total, pc, frame>>
    /\ UNCHANGED <<rpc, isteps, response>>

\* A step that carries a calendar event id is added to the trace, and the
\* result is derived again from the longer trace.
AppendCalendarStep ==
    /\ Len(reasoning_steps) <= MaxTrace
    /\ \E digits \in IdDraws :
         LET step == [action |-> "add_to_calendar", input |-> <<>>,
                      observation |->
                          Truncate(app_add_to_calendar("Flight to Mumbai", TravelDate, <<6, 0>>,
                                                       TRUE, digits), 200)]
         IN  /\ reasoning_steps' = Append(reasoning_steps, step)
             /\ extracted' = <<extract_booking_details(reasoning_steps')>>
    /\ UNCHANGED <<total_spending, hashseed, last, prev, ncalls, issued, charged_total, pc, frame>>
    /\ UNCHANGED <<rpc, isteps, response>>

NextExtract == ExtractDetails \/ AppendCalendarStep

SpecExtract == InitExtract /\ [][NextExtract]_vars

-----------------------------------------------------------------------------
(* Properties *)

ValidBooking(call) ==
    /\ call.tool = "book_flight"
    /\ ~IsBlank(call.args[1])
    /\ ~IsBlank(call.args[2])

\* C1: starting from total_spending = 0, after any sequence of book_flight
\* calls (valid or invalid arguments) total_spending is at most BUDGET_LIMIT,
\* and so is the value every book_flight call left behind.
C1_SpendingWithinBudget ==
    /\ total_spending <= BUDGET_LIMIT
    /\ last.tool = "book_flight" => last.after <= BUDGET_LIMIT
    /\ prev.tool = "book_flight" => prev.after <= BUDGET_LIMIT

\* C1 witness: the budget is full and a further valid booking was turned down.
C1_Witness ==
    /\ ValidBooking(last)
    /\ last.outcome = "blocked"
    /\ prev.outcome = "confirmed"
    /\ total_spending = BUDGET_LIMIT

\* C2: under every interleaving of concurrent book_flight calls, a thread that
\* has committed its booking leaves total_spending within BUDGET_LIMIT (the
\* budget check and the commit of one call act as one atomic step).
C2_ConcurrentWithinBudget ==
    \A t \in Threads : frame[t].outcome = "confirmed" => total_spending <= BUDGET_LIMIT

\* C3: a valid booking that finds total_spending + price > BUDGET_LIMIT is
\* blocked, and total_spending stays what it was.
C3_OverBudgetRejected ==
    (ValidBooking(last) /\ last.before + mock_price > BUDGET_LIMIT)
        => /\ last.outcome = "blocked"
           /\ last.confirmation = NoConf
           /\ last.after = last.before
           /\ total_spending = last.before

\* C3 witness: total_spending = 800, price 500: blocked, total_spending still 800.
C3_Witness ==
    /\ ValidBooking(last)
    /\ last.before = 800
    /\ last.outcome = "blocked"
    /\ total_spending = 800

\* C4: starting from total_spending = 0, total_spending equals the sum of the
\* amounts charged by the calls that returned a confirmation, and never
\* exceeds BUDGET_LIMIT.
C4_SpendingIsSumOfCharges ==
    /\ total_spending = charged_total
    /\ charged_total <= BUDGET_LIMIT

\* C4 witness: two bookings were charged, a third was blocked and charged nothing.
C4_Witness ==
    /\ charged_total = 2 * mock_price
    /\ prev.outcome = "confirmed"
    /\ last.outcome = "blocked"

\* C5: a valid booking that finds total_spending + price <= BUDGET_LIMIT
\* (equality included) is confirmed and raises total_spending by exactly the
\* price.
C5_WithinBudgetSucceeds ==
    (ValidBooking(last) /\ last.before + mock_price <= BUDGET_LIMIT)
        => /\ last.outcome = "confirmed"
           /\ last.charged = mock_price
           /\ last.after = last.before + mock_price
           /\ total_spending = last.before + mock_price

\* C5 witness: the boundary, total_spending + price = BUDGET_LIMIT.
C5_Witness ==
    /\ ValidBooking(last)
    /\ last.before + mock_price = BUDGET_LIMIT
    /\ last.outcome = "confirmed"
    /\ total_spending = BUDGET_LIMIT

\* C6: a booking whose price is above the limit is not a success and charges
\* nothing.
C6_PriceAboveLimitRejected ==
    (last.tool = "app_book_flight" /\ last.args[3] > BUDGET_LIMIT)
        => /\ last.outcome # "success"
           /\ last.charged = 0

\* C7: a booking call changes total_spending at most once and only when it
\* succeeds: the script's book_flight adds the amount charged when it returns a
\* confirmation, and every call that ends in an input error, a budget block or
\* a simulated failure leaves total_spending as it was.
C7_LedgerChangesOnlyOnSuccess ==
    /\ last.tool = "book_flight" =>
        /\ total_spending = last.after
        /\ IF last.outcome = "confirmed"
           THEN last.after = last.before + last.charged
           ELSE last.after = last.before /\ last.charged = 0
    /\ last.tool = "app_book_flight" =>
        /\ total_spending = last.after
        /\ last.outcome # "success" => (last.after = last.before /\ last.charged = 0)
        /\ last.after \in {last.before, last.before + last.charged}

\* C7 witness: with the budget used up, a blocked call and then a call that
\* failed for want of a seat; the ledger is what it was.
C7_Witness ==
    /\ prev.tool = "book_flight" /\ prev.outcome = "blocked"
    /\ prev.before = BUDGET_LIMIT
    /\ last.tool = "app_book_flight"
    /\ last.reason = "Booking failed due to seat unavailability"
    /\ last.before = BUDGET_LIMIT
    /\ total_spending = BUDGET_LIMIT

\* C8: two consecutive book_flight calls with the same arguments that both fit
\* in the budget are both confirmed and are charged twice.
C8_NotIdempotent ==
    (/\ ValidBooking(prev) /\ ValidBooking(last)
     /\ prev.args = last.args
     /\ prev.before + 2 * mock_price <= BUDGET_LIMIT)
        => /\ prev.outcome = "confirmed"
           /\ last.outcome = "confirmed"
           /\ last.before = prev.before + mock_price
           /\ total_spending = prev.before + 2 * mock_price

\* C8 witness: the same flight booked twice for the same passenger.
C8_Witness ==
    /\ ValidBooking(prev) /\ ValidBooking(last)
    /\ prev.args = last.args
    /\ prev.outcome = "confirmed" /\ last.outcome = "confirmed"
    /\ total_spending = 2 * mock_price

\* C9: no two confirmed bookings of the process carry the same confirmation
\* identifier.
C9_UniqueConfirmations ==
    \A c \in BagToSet(issued) : CopiesIn(c, issued) = 1

\* C10: total_spending never decreases except by the caller's explicit reset:
\* no later tool call, failed calendar call included, lowers it.
C10_NoRollback ==
    [][ResetSpending \/ total_spending' >= total_spending]_vars

\* C10 witness: a booking was charged, the calendar call after it failed, and
\* the charge is still on the ledger.
C10_Witness ==
    /\ prev.tool = "book_flight" /\ prev.outcome = "confirmed"
    /\ last.tool = "add_to_calendar" /\ last.outcome = "invalid_input"
    /\ total_spending = prev.after
    /\ total_spending > 0

\* C11: only the booking action changes the ledger: every search_flights and
\* every add_to_calendar call, whatever its input and outcome, leaves
\* total_spending as it found it.
C11_OnlyBookingChangesLedger ==
    /\ last.tool \in {"search_flights", "add_to_calendar"} =>
           (last.after = last.before /\ total_spending = last.before)
    /\ prev.tool \in {"search_flights", "add_to_calendar"} =>
           prev.after = prev.before

\* C11 witness: with a booking on the ledger, a successful search and then a
\* successful calendar entry; the ledger still shows the booking.
C11_Witness ==
    /\ prev.tool = "search_flights" /\ prev.outcome = "found"
    /\ last.tool = "add_to_calendar" /\ last.outcome = "created"
    /\ prev.before = mock_price
    /\ total_spending = mock_price

-----------------------------------------------------------------------------
(* Properties of a run of the orchestrator *)

\* The step is a search that came back with flights.
SearchSucceeded(step) ==
    step.action = "search_flights" /\ HasFlightsFound(step.observation)

\* The step is a booking that came back with a booking id.
BookingSucceeded(step) ==
    step.action = "book_flight" /\ SearchStr(step.observation, "booking_id") # None

\* The step is a calendar entry that came back with an event id.
CalendarSucceeded(step) ==
    step.action = "add_to_calendar" /\ SearchStr(step.observation, "event_id") # None

\* C12: within one run no book invocation comes before a search that returned
\* flights, and no calendar invocation comes before a book invocation that
\* returned success.
C12_StrictOrder ==
    \A i \in 1..Len(isteps[1]) :
        /\ isteps[1][i].action = "book_flight" =>
               \E j \in 1..(i - 1) : SearchSucceeded(isteps[1][j])
        /\ isteps[1][i].action = "add_to_calendar" =>
               \E j \in 1..(i - 1) : BookingSucceeded(isteps[1][j])

\* C13: after a book invocation that did not succeed, the run invokes no
\* further book action and no calendar action.
C13_BookingFailureTerminal ==
    \A i \in 1..Len(isteps[1]) :
        (isteps[1][i].action = "book_flight" /\ ~BookingSucceeded(isteps[1][i])) =>
            \A j \in (i + 1)..Len(isteps[1]) :
                isteps[1][j].action \notin {"book_flight", "add_to_calendar"}

\* The run came back from the executor and answered: a search that found
\* flights, then a booking that failed, and nothing else.
C14_Scenario ==
    /\ rpc[1] = "done"
    /\ response[1].success
    /\ Len(isteps[1]) = 2
    /\ SearchSucceeded(isteps[1][1])
    /\ isteps[1][2].action = "book_flight"
    /\ ~BookingSucceeded(isteps[1][2])

\* C14: a full run in which search succeeds and the booking fails yields final
\* status `failed` with no booking id, and its trace is the search step and
\* the book step.
C14_FailedBookingReportsFailed ==
    C14_Scenario =>
        /\ response[1].status = "failed"
        /\ response[1].booking_id = None
        /\ Len(response[1].agent_reasoning) = 2
        /\ response[1].agent_reasoning[1][1] = "search_flights"
        /\ response[1].agent_reasoning[2][1] = "book_flight"

\* The run answered after a booking that succeeded and a later calendar call,
\* and no calendar call of the run succeeded.
C15_Case ==
    /\ rpc[1] = "done"
    /\ response[1].success
    /\ \E i \in 1..Len(isteps[1]) :
         /\ BookingSucceeded(isteps[1][i])
         /\ \E j \in (i + 1)..Len(isteps[1]) : isteps[1][j].action = "add_to_calendar"
    /\ \A j \in 1..Len(isteps[1]) : ~CalendarSucceeded(isteps[1][j])

\* The booking id of the run's last successful booking.
LastBookingId(steps) ==
    LET I == {i \in 1..Len(steps) : BookingSucceeded(steps[i])}
        i == CHOOSE x \in I : \A y \in I : x >= y
    IN  SearchStr(steps[i].observation, "booking_id")

\* C15: when the booking of a run succeeded and its calendar call failed or
\* was refused as invalid, the answer of the run (the executor having come
\* back) carries the booking id and the status `booked`.
C15_BookedDespiteCalendar ==
    C15_Case =>
        /\ response[1].status = "booked"
        /\ response[1].booking_id = LastBookingId(isteps[1])
        /\ response[1].calendar_event_id = None

C15_Witness ==
    /\ C15_Case
    /\ response[1].status = "booked"
    /\ \E j \in 1..Len(isteps[1]) :
         isteps[1][j].action = "add_to_calendar" /\ isteps[1][j].input[1] = ""

\* C16: a run never takes more steps than max_iterations, and a run that the
\* ceiling stopped ends as a failed result.
C16_CeilingEndsFailed ==
    /\ Len(isteps[1]) <= max_iterations
    /\ (rpc[1] = "done" /\ response[1].forced) =>
           (~response[1].success /\ response[1].status = "failed")

\* C17: when the executor raises, process_booking_request returns (nothing is
\* propagated) a result with success = false, and the endpoint answers with
\* status `failed`.
C17_ExecutorErrorContained ==
    [][RaiseRun(1) =>
          /\ response'[1].returned
          /\ ~response'[1].propagated
          /\ ~response'[1].success
          /\ response'[1].status = "failed"]_vars

C17_Witness ==
    /\ rpc[1] = "done"
    /\ Len(isteps[1]) > 0
    /\ response[1].returned
    /\ ~response[1].success
    /\ response[1].status = "failed"

\* The ids that the steps carry for key.
IdsOf(steps, key) ==
    {SearchStr(steps[i].observation, key) : i \in 1..Len(steps)} \ {None}

\* C18: with two runs on one agent at once, the trace answered for a run holds
\* the steps of that run and no others, and the ids answered are ids of that run.
C18_TraceOwnedByRun ==
    \A r \in Runs :
        (rpc[r] = "done" /\ response[r].success) =>
            /\ Len(response[r].agent_reasoning) = Len(isteps[r])
            /\ \A i \in 1..Len(isteps[r]) :
                   response[r].agent_reasoning[i][1] = isteps[r][i].action
            /\ response[r].booking_id \in IdsOf(isteps[r], "booking_id") \cup {None}
            /\ response[r].calendar_event_id \in IdsOf(isteps[r], "event_id") \cup {None}

\* C19: at the end of a run, successful or errored, the trace is as long as
\* the number of tool invocations of the run, and step i names the i-th.
C19_TraceMatchesInvocations ==
    (rpc[1] = "done" /\ response[1].returned) =>
        /\ Len(response[1].agent_reasoning) = Len(isteps[1])
        /\ \A i \in 1..Len(isteps[1]) :
               response[1].agent_reasoning[i][1] = isteps[1][i].action

\* The segments of an observation that the pattern of a field matches.
Matches(observation, key) ==
    {i \in 1..Len(observation) :
        IF key = "price" THEN NumMatches(observation[i], key)
        ELSE StrMatches(observation[i], key)}

\* What a matching segment gives as the value of the field.
ValueAt(observation, key, i) ==
    IF key = "price" THEN <<NumValue(observation[i])>> ELSE observation[i].v

\* The value for key taken from the last step of the trace that has a match:
\* the leftmost match of that step if leftmost, the rightmost one otherwise.
FromLastMatchingStep(steps, key, leftmost) ==
    LET J == {j \in 1..Len(steps) : Matches(steps[j].observation, key) # {}}
    IN  IF J = {} THEN None
        ELSE LET j == CHOOSE x \in J : \A y \in J : x >= y
                 I == Matches(steps[j].observation, key)
                 i == IF leftmost THEN CHOOSE x \in I : \A y \in I : x <= y
                      ELSE CHOOSE x \in I : \A y \in I : x >= y
             IN  ValueAt(steps[j].observation, key, i)

\* The four fields of the answer of run 1 are the ones so taken.
AnswersAre(leftmost) ==
    /\ response[1].booking_id = FromLastMatchingStep(reasoning_steps, "booking_id", leftmost)
    /\ response[1].flight_number = FromLastMatchingStep(reasoning_steps, "flight_number", leftmost)
    /\ response[1].price = FromLastMatchingStep(reasoning_steps, "price", leftmost)
    /\ response[1].calendar_event_id = FromLastMatchingStep(reasoning_steps, "event_id", leftmost)

\* C20 as first stated: for each of the four fields, extract reports the last
\* match of the whole trace, also when the pattern occurs more than once in
\* one observation.
C20_LastMatchOfTrace ==
    (rpc[1] = "done" /\ response[1].success) => AnswersAre(FALSE)

\* C20: for each of the four fields, extract reports the match of the last
\* step in which the pattern occurs, and within that step's observation the
\* first occurrence.
C20_FirstMatchOfLastStep ==
    (rpc[1] = "done" /\ response[1].success) => AnswersAre(TRUE)

\* A later step overrode an earlier one, and the step that was reported holds
\* the price pattern twice.
C20_Witness ==
    /\ rpc[1] = "done"
    /\ response[1].success
    /\ \E j \in 1..Len(reasoning_steps) :
         /\ Cardinality(Matches(reasoning_steps[j].observation, "price")) > 1
         /\ \A k \in (j + 1)..Len(reasoning_steps) :
                Matches(reasoning_steps[k].observation, "price") = {}
    /\ \E j, k \in 1..Len(reasoning_steps) :
         /\ j < k
         /\ Matches(reasoning_steps[j].observation, "flight_number") # {}
         /\ Matches(reasoning_steps[k].observation, "flight_number") # {}
         /\ SearchStr(reasoning_steps[j].observation, "flight_number") # response[1].flight_number
    /\ response[1].price = <<1>>

-----------------------------------------------------------------------------
(* Properties of extract_booking_details *)

\* Some step of the trace says that flights were found.
OffersFound(steps) == \E j \in 1..Len(steps) : HasFlightsFound(steps[j].observation)

\* C21: the status is `confirmed` iff both a booking id and a calendar event
\* id were extracted; otherwise `booked` iff a booking id was; otherwise
\* `found` iff some observation says flights were found; otherwise `failed`.
C21_StatusPriority ==
    \A i \in 1..Len(extracted) :
        LET d == extracted[i] IN
          /\ d.status = "confirmed" <=> (d.booking_id # None /\ d.calendar_event_id # None)
          /\ d.status = "booked" <=> (d.booking_id # None /\ d.calendar_event_id = None)
          /\ d.status = "found" <=> (d.booking_id = None /\ OffersFound(reasoning_steps))
          /\ d.status = "failed" <=> (d.booking_id = None /\ ~OffersFound(reasoning_steps))

\* A booking id outranks the flights that a search of the same trace found, and
\* an event id without a booking id counts for nothing.
C21_Witness ==
    /\ Len(extracted) = 2
    /\ extracted[2].status = "booked"
    /\ OffersFound(reasoning_steps)

\* C22: when a trace yields `booked`, the trace with one more step that
\* carries a calendar event id yields `confirmed`.
C22_CalendarStepConfirms ==
    [][(AppendCalendarStep /\ extracted # <<>> /\ extracted[Len(extracted)].status = "booked")
          => extracted'[1].status = "confirmed"]_vars

\* A calendar step was added to a trace that held a booking and no event id.
C22_Witness ==
    /\ Len(reasoning_steps) = MaxTrace + 1
    /\ Len(extracted) = 1
    /\ extracted[1].status = "confirmed"
    /\ \A j \in 1..MaxTrace : Matches(reasoning_steps[j].observation, "event_id") = {}
    /\ Matches(reasoning_steps[MaxTrace + 1].observation, "event_id") # {}

C24_ExtractionTotal ==
    \A i \in 1..Len(extracted) :
        LET d == extracted[i]
            Nowhere(key) == \A j \in 1..Len(reasoning_steps) :
                                Matches(reasoning_steps[j].observation, key) = {}
        IN  /\ d.status \in {"confirmed", "booked", "found", "failed"}
            /\ d.booking_id = None <=> Nowhere("booking_id")
            /\ d.flight_number = None <=> Nowhere("flight_number")
            /\ d.price = None <=> Nowhere("price")
            /\ d.calendar_event_id = None <=> Nowhere("event_id")

\* A trace in which the price is cut off before its digits: the flight number
\* is extracted, the price is not.
C24_Witness ==
    /\ extracted # <<>>
    /\ extracted[1].flight_number # None
    /\ extracted[1].price = None
    /\ \E j \in 1..Len(reasoning_steps) :
         \E k \in 1..Len(reasoning_steps[j].observation) :
            /\ reasoning_steps[j].observation[k].k = "price"
            /\ reasoning_steps[j].observation[k].m < reasoning_steps[j].observation[k].n

-----------------------------------------------------------------------------
(* Properties of the search tools *)

\* The price that the call gave to entry i of MOCK_FLIGHTS.
GeneratedPrice(call, i) == MOCK_FLIGHTS[i].base_price + call.args[5][i]

\* The entries of MOCK_FLIGHTS whose generated price is within the budget of
\* the call.
WithinBudget(call) ==
    {i \in 1..Len(MOCK_FLIGHTS) : GeneratedPrice(call, i) <= call.args[3]}

\* The entry of MOCK_FLIGHTS that a returned flight was generated from.
EntryOf(flight) ==
    CHOOSE i \in 1..Len(MOCK_FLIGHTS) : MOCK_FLIGHTS[i].airline = flight.airline

\* C25: no search returns a flight priced above the max_price it was given
\* (the script's prices are in hundredths of the unit of its price argument).
C25_NoOfferAboveMaxPrice ==
    /\ last.tool = "app_search_flights" =>
           \A k \in 1..Len(last.flights) : last.flights[k].price <= last.args[3]
    /\ (last.tool = "search_flights" /\ last.outcome = "found") =>
           \A k \in 2..Len(last.confirmation) :
               last.confirmation[k][2] <= 100 * last.args[2]

\* A search of the service with flights on both sides of the budget, one of
\* them priced at the budget exactly, after a search of the script.
C25_Witness ==
    /\ last.tool = "app_search_flights"
    /\ last.outcome = "success"
    /\ \E k \in 1..Len(last.flights) : last.flights[k].price = last.args[3]
    /\ WithinBudget(last) # 1..Len(MOCK_FLIGHTS)
    /\ prev.tool = "search_flights"
    /\ prev.outcome = "found"

\* C26: the flights a search of the service exposes are in ascending order of
\* price and are the three cheapest of the generated flights within the budget
\* (all of them when fewer than three are): each is one of those, none twice,
\* and no flight left out is cheaper than one returned.
C26_ThreeCheapestAscending ==
    (last.tool = "app_search_flights" /\ last.outcome = "success") =>
        LET R == last.flights
            returned == {EntryOf(R[k]) : k \in 1..Len(R)}
        IN  /\ \A k \in 1..(Len(R) - 1) : R[k].price <= R[k + 1].price
            /\ Len(R) = Min(3, Cardinality(WithinBudget(last)))
            /\ Cardinality(returned) = Len(R)
            /\ returned \subseteq WithinBudget(last)
            /\ \A k \in 1..Len(R) : R[k].price = GeneratedPrice(last, EntryOf(R[k]))
            /\ \A i \in WithinBudget(last) \ returned :
                   \A k \in 1..Len(R) : GeneratedPrice(last, i) >= R[k].price

\* More than three flights were within the budget, the cheapest is not the
\* first entry of MOCK_FLIGHTS, and two of the returned prices are equal.
C26_Witness ==
    /\ last.tool = "app_search_flights"
    /\ last.outcome = "success"
    /\ Cardinality(WithinBudget(last)) > 3
    /\ Len(last.flights) = 3
    /\ EntryOf(last.flights[1]) # 1
    /\ last.flights[2].price = last.flights[3].price

\* C27: when the date parses and no generated flight is within the budget, the
\* search of the service returns the 'No flights found' message: no error
\* text and no result with a list of flights.
C27_NoOffersResult ==
    (/\ last.tool = "app_search_flights"
     /\ ValidDate(last.args[4])
     /\ WithinBudget(last) = {}) =>
        /\ last.outcome = "no_flights"
        /\ last.flights = <<>>
        /\ Len(last.text) = 1
        /\ last.text[1].k = "No flights found from ... to ... within budget of ..."
        /\ ~HasFlightsFound(last.text)

C27_Witness ==
    /\ last.tool = "app_search_flights"
    /\ last.outcome = "no_flights"
    /\ last.args[3] > 0
    /\ WithinBudget(last) = {}
    /\ prev.tool = "app_search_flights"
    /\ prev.outcome = "success"

-----------------------------------------------------------------------------
(* Properties of a run after a search without flights, and of the guards of   *)
(* the booking and calendar tools                                            *)

\* The step is a search that came back with the 'No flights found' message.
NoOffers(step) ==
    /\ step.action = "search_flights"
    /\ step.observation # <<>>
    /\ step.observation[1].k = "No flights found from ... to ... within budget of ..."

\* C28: after a search of a run came back without flights, the run invokes no
\* book action and no calendar action.
C28_NoOffersEndsRun ==
    \A i \in 1..Len(isteps[1]) :
        NoOffers(isteps[1][i]) =>
            \A j \in (i + 1)..Len(isteps[1]) :
                isteps[1][j].action \notin {"book_flight", "add_to_calendar"}

\* C29: a book call with an empty flight id or an empty passenger name (in the
\* service also a price <= 0) returns an error about that input, whatever else
\* is wrong with the call, with no confirmation identifier, no charge and the
\* ledger as it was.
C29_BookPreconditions ==
    /\ (last.tool = "book_flight" /\ (last.args[1] = EMPTY \/ last.args[2] = EMPTY)) =>
           /\ last.outcome = "invalid_input"
           /\ last.confirmation = NoConf
           /\ last.charged = 0
           /\ last.after = last.before
    /\ (/\ last.tool = "app_book_flight"
        /\ (last.args[1] = EMPTY \/ last.args[2] = EMPTY \/ last.args[3] <= 0)) =>
           /\ last.outcome = "error"
           /\ last.reason \in {"Flight number and passenger name are required", "Invalid price"}
           /\ last.confirmation = NoConf
           /\ last.charged = 0
           /\ last.after = last.before

\* A negative price with a date that does not parse is refused for its price,
\* after a call of the script's book_flight with an empty argument was refused
\* while the ledger held a booking.
C29_Witness ==
    /\ last.tool = "app_book_flight"
    /\ last.args[3] < 0
    /\ ~ValidDate(last.args[4])
    /\ last.reason = "Invalid price"
    /\ prev.tool = "book_flight"
    /\ (prev.args[1] = EMPTY \/ prev.args[2] = EMPTY)
    /\ prev.outcome = "invalid_input"
    /\ total_spending > 0

\* C30: a calendar call whose date and time do not parse as a real date and
\* time of day returns an error and no event id, whatever the draw.
C30_CalendarValidatesDate ==
    (/\ last.tool = "app_add_to_calendar"
     /\ (~ValidDate(last.args[2]) \/ ~ValidTime(last.args[3]) \/ last.args[2] = <<31, 2, 2025>>)) =>
        /\ last.outcome = "error"
        /\ last.confirmation = NoConf
        /\ Matches(last.text, "event_id") = {}
        /\ last.text[1].t = "plain"

\* 31-02-2025 was refused after a well-formed call was recorded.
C30_Witness ==
    /\ last.tool = "app_add_to_calendar"
    /\ last.args[2] = <<31, 2, 2025>>
    /\ last.args[1] # ""
    /\ last.reason = "Invalid date/time format"
    /\ prev.tool = "app_add_to_calendar"
    /\ prev.outcome = "success"

-----------------------------------------------------------------------------
(* Properties of the tools' failures *)

AppTools == {"app_search_flights", "app_book_flight", "app_add_to_calendar"}

\* The call's arguments are ones its tool cannot act on: a date or a time
\* that does not parse, an empty field, a price that is not positive.
BadInput(call) ==
    CASE call.tool = "app_search_flights" -> ~ValidDate(call.args[4])
      [] call.tool = "app_book_flight" ->
            \/ call.args[1] = EMPTY \/ call.args[2] = EMPTY
            \/ call.args[3] <= 0 \/ ~ValidDate(call.args[4])
      [] call.tool = "app_add_to_calendar" ->
            \/ call.args[1] = "" \/ call.args[2] = <<>> \/ call.args[3] = <<>>
            \/ ~ValidDate(call.args[2]) \/ ~ValidTime(call.args[3])
      [] OTHER -> FALSE

\* C31: every call of search, book and calendar of the service returns an
\* outcome value and none raises to its caller; on an unparsable date, an
\* empty field or a non-positive price the value returned is an error.
C31_FailuresAreValues ==
    last.tool \in AppTools =>
        /\ last.outcome \in {"success", "no_flights", "error"}
        /\ BadInput(last) => last.outcome = "error"

\* A search with a text for its date returned an error after a booking on a
\* day that does not exist and with a positive price returned one.
C31_Witness ==
    /\ last.tool = "app_search_flights"
    /\ last.args[4] = <<"tomorrow">>
    /\ last.outcome = "error"
    /\ prev.tool = "app_book_flight"
    /\ prev.args[3] > 0
    /\ prev.args[1] # EMPTY
    /\ ~ValidDate(prev.args[4])
    /\ prev.outcome = "error"

-----------------------------------------------------------------------------
(* Properties of the script's prices and dates *)

\* C32: two confirmed bookings of different flight IDs are charged different
\* amounts.
C32_PriceDependsOnFlightId ==
    (/\ prev.tool = "book_flight" /\ prev.outcome = "confirmed"
     /\ last.tool = "book_flight" /\ last.outcome = "confirmed"
     /\ prev.args[1] # last.args[1]) =>
        prev.charged # last.charged

\* The date reads YYYY-MM-DD: a four-digit year, a month and a day of the
\* month between dashes (of the tokens, "2024" is a year, "12" a month or a
\* day, "25" a day).
IsYYYYMMDD(date) ==
    /\ Len(date) = 5
    /\ date[2] = "-" /\ date[4] = "-"
    /\ date[1] \in {"2024"}
    /\ date[3] \in {"12"}
    /\ date[5] \in {"12", "25"}

\* C33: add_to_calendar of the script answers every date that is not in
\* YYYY-MM-DD format with an input error and creates no event.
C33_RejectsOtherDateFormats ==
    (last.tool = "add_to_calendar" /\ ~IsYYYYMMDD(last.args[1])) =>
        /\ last.outcome = "invalid_input"
        /\ last.confirmation = NoConf

-----------------------------------------------------------------------------
(* Properties of what a run books *)

\* The flight number of the first offer of a search that returned flights: the
\* offers are written in ascending price order.
FirstOffer(step) == SearchStr(step.observation, "flight_number")

\* C34: the flight booked in a run is the first, minimum-price offer of the
\* run's search.
C34_BooksCheapestOffer ==
    \A i, j \in 1..Len(isteps[1]) :
        (/\ i < j
         /\ SearchSucceeded(isteps[1][i])
         /\ BookingSucceeded(isteps[1][j])) =>
            isteps[1][j].input[1] = FirstOffer(isteps[1][i])

-----------------------------------------------------------------------------
(* Properties of the trace *)

\* short is what a cut after some character of full leaves: the segments
\* before the cut as they are, and the cut one with fewer characters present.
IsPrefix(short, full) ==
    /\ Len(short) <= Len(full)
    /\ \A i \in 1..Len(short) :
          IF i < Len(short) THEN short[i] = full[i]
          ELSE /\ short[i].m <= full[i].m
               /\ short[i] = [full[i] EXCEPT !.m = short[i].m]

\* C35: every observation stored in the trace is at most 200 characters long
\* and is a prefix of the text the tool of that step returned; the trace is
\* empty from the start of a run through all its steps, so what a run stores
\* are its own steps only.
C35_TraceObservationsTruncated ==
    /\ rpc[1] = "running" => reasoning_steps = <<>>
    /\ Len(reasoning_steps) <= Len(isteps[1])
    /\ \A i \in 1..Len(reasoning_steps) :
          /\ reasoning_steps[i].action = isteps[1][i].action
          /\ TextLen(reasoning_steps[i].observation) <= 200
          /\ IsPrefix(reasoning_steps[i].observation, isteps[1][i].observation)

\* A run stored a search result cut at 200 characters and then an error text
\* that was shorter and was stored whole.
C35_Witness ==
    /\ rpc[1] = "done"
    /\ Len(reasoning_steps) = 2
    /\ TextLen(isteps[1][1].observation) > 200
    /\ TextLen(reasoning_steps[1].observation) = 200
    /\ TextLen(isteps[1][2].observation) < 200
    /\ reasoning_steps[2].observation = isteps[1][2].observation

-----------------------------------------------------------------------------
(* Properties of the answer of a run that booked *)

\* The booking ids that the book invocations of the run returned.
BookedIds(steps) ==
    {SearchStr(steps[i].observation, "booking_id") :
        i \in {k \in 1..Len(steps) : BookingSucceeded(steps[k])}}

\* C36: a run in which a book invocation returned a booking id answers with
\* that id and with the status booked or confirmed, whatever happened later in
\* the run.
C36_BookingNeverLost ==
    (rpc[1] = "done" /\ BookedIds(isteps[1]) # {}) =>
        /\ response[1].returned
        /\ response[1].status \in {"booked", "confirmed"}
        /\ response[1].booking_id \in BookedIds(isteps[1])

\* request.max_price of the request that the runs serve: the budget that the
\* planner's search passes on.
request_max_price == 3500

\* The flight numbers of the offers that the search of the step returned.
OfferedFlights(step) ==
    {step.observation[k].v :
        k \in {n \in 1..Len(step.observation) : StrMatches(step.observation[n], "flight_number")}}

\* C37: a successful booking of a run charges at most the max_price of the
\* run's request, and books one of the offers that a search of the run
\* returned before it.
C37_BooksAnOfferWithinMaxPrice ==
    \A j \in 1..Len(isteps[1]) :
        BookingSucceeded(isteps[1][j]) =>
            /\ isteps[1][j].input[3] <= request_max_price
            /\ \E i \in 1..(j - 1) :
                  /\ SearchSucceeded(isteps[1][i])
                  /\ isteps[1][j].input[1] \in OfferedFlights(isteps[1][i])

\* The values of the enumeration BookingStatus.
BookingStatus == {"pending", "searching", "found", "booked", "confirmed", "failed"}

\* C38: whatever run produced the trace, the status that the answer takes from
\* extract_booking_details is confirmed, booked, found or failed, a value of
\* BookingStatus, and never the initial "unknown".
C38_StatusRecognized ==
    rpc[1] = "done" =>
        /\ response[1].returned
        /\ response[1].status \in {"confirmed", "booked", "found", "failed"}
        /\ response[1].status \in BookingStatus
        /\ response[1].success =>
              response[1].status = extract_booking_details(reasoning_steps).status

\* A run whose only step was a calendar entry that came back with an error
\* was answered normally, with the status failed.
C38_Witness ==
    /\ rpc[1] = "done"
    /\ response[1].success
    /\ response[1].status = "failed"
    /\ Len(reasoning_steps) = 1
    /\ reasoning_steps[1].action = "add_to_calendar"
    /\ ~CalendarSucceeded(reasoning_steps[1])

-----------------------------------------------------------------------------
(* Properties of the script's offers *)

\* C39: every offer that search_flights of the script returns for a
\* destination that is not blank and a price above 0 has a price above 0.
C39_OfferPricesPositive ==
    (/\ last.tool = "search_flights"
     /\ ~IsBlank(last.args[1])
     /\ last.args[2] > 0) =>
        /\ last.outcome = "found"
        /\ \A k \in 2..Len(last.confirmation) : last.confirmation[k][2] > 0

====
